---- MODULE Spec2Model ----
(***************************************************************************)
(* The AVC2 Virtual Drive (src/src/lib.rs): a sparse store of 256-byte     *)
(* blocks keyed by a u16 index, and its archive codec.                     *)
(*                                                                         *)
(* One Avd (its `blocks` vector) and one host file are modelled.  Every    *)
(* public method is an action; the private codec functions and get_block   *)
(* are operators computed as the code computes them.                       *)
(***************************************************************************)
EXTENDS Integers, Sequences, FiniteSets, TLC

\* ---------------------------------------------------------------- bounds
\* set_block appends a new block only while fewer than MaxBlocks are stored
MaxBlocks == 2
\* number of records in a file written by somebody else than save()
MaxRecords == 3

\* ------------------------------------------------------ program constants
BlockSize == 256
RecordSize == 258
HeaderLen == 4
Magic == <<65, 86, 68, 0>>

\* ------------------------------------------------------------ input sets
\* data = [0; 256]
ZeroData == [i \in 1..BlockSize |-> 0]
\* data[i] = i as u8
RampData == [i \in 1..BlockSize |-> i - 1]
Payloads == {ZeroData, RampData}
\* u16 indices handed to set_block and found in host files
Indices == {0, 1234}
\* indices get_block is probed with
ProbeIdx == Indices \cup {1, 53764, 65535}
U16 == 0..65535
BlockSet == [idx : Indices, data : Payloads]

\* ------------------------------------------------------------ Option / Result
None == [some |-> FALSE, data |-> <<>>]
Some(d) == [some |-> TRUE, data |-> d]

\* the () a method without a return value gives back
Unit == [kind |-> "Unit", header |-> <<>>]
Ok == [kind |-> "Ok", header |-> <<>>]
FsError == [kind |-> "FsError", header |-> <<>>]
BadHeader(a, b, c, d) == [kind |-> "BadHeader", header |-> <<a, b, c, d>>]
MalformedArchive == [kind |-> "MalformedArchive", header |-> <<>>]
\* a panic is not a Result: the thread unwinds out of the call
Panic == [kind |-> "Panic", header |-> <<>>]

\* ------------------------------------------------------------------ Block
Block(i, d) == [idx |-> i, data |-> d]

cmp(a, b) == IF a < b THEN "Less" ELSE IF a = b THEN "Equal" ELSE "Greater"
\* (bug) the comparison the wrong way round: the sort is descending
partial_cmp_rev(a, b) == cmp(b.idx, a.idx)

partial_cmp(a, b) == cmp(a.idx, b.idx)

\* ------------------------------------------------------------------ codec
\* (bug) the index written low byte first
to_le_bytes(i) == <<i % 256, i \div 256>>

to_be_bytes(i) == <<i \div 256, i % 256>>
\* (bug) the index read back low byte first
from_le_bytes(b) == b[2] * 256 + b[1]
from_be_bytes(b) == b[1] * 256 + b[2]

RECURSIVE extend_blocks(_, _)
extend_blocks(ret, bs) ==
    IF bs = <<>> THEN ret
    ELSE extend_blocks(ret \o to_be_bytes(Head(bs).idx) \o Head(bs).data, Tail(bs))

\* (bug) the records written from the last block to the first
save_archive_rev(bs) ==
    extend_blocks(Magic, [k \in 1..Len(bs) |-> bs[Len(bs) + 1 - k]])

save_archive(bs) == extend_blocks(Magic, bs)

\* (bug) a record whose index was already read is dropped
RECURSIVE load_loop_dedup(_, _)
load_loop_dedup(ret, data_seg) ==
    IF Len(data_seg) < RecordSize THEN ret
    ELSE LET block == SubSeq(data_seg, 1, RecordSize)
             rest == SubSeq(data_seg, RecordSize + 1, Len(data_seg))
             idx == from_be_bytes(SubSeq(block, 1, 2))
             b == Block(idx, SubSeq(block, 3, RecordSize))
         IN IF \E k \in 1..Len(ret) : ret[k].idx = idx
            THEN load_loop_dedup(ret, rest)
            ELSE load_loop_dedup(Append(ret, b), rest)

\* (bug) the blocks come out in the reverse of the file order
RECURSIVE load_loop_rev(_, _)
load_loop_rev(ret, data_seg) ==
    IF Len(data_seg) < RecordSize THEN ret
    ELSE LET block == SubSeq(data_seg, 1, RecordSize)
             rest == SubSeq(data_seg, RecordSize + 1, Len(data_seg))
             idx == from_be_bytes(SubSeq(block, 1, 2))
             b == Block(idx, SubSeq(block, 3, RecordSize))
         IN load_loop_rev(<<b>> \o ret, rest)

RECURSIVE load_loop(_, _)
load_loop(ret, data_seg) ==
    IF Len(data_seg) < RecordSize THEN ret
    ELSE LET block == SubSeq(data_seg, 1, RecordSize)
             rest == SubSeq(data_seg, RecordSize + 1, Len(data_seg))
             idx == from_be_bytes(SubSeq(block, 1, 2))
             b == Block(idx, SubSeq(block, 3, RecordSize))
         IN load_loop(Append(ret, b), rest)

\* (bug) the length of the data segment checked before the header
load_archive_len_first(archive) ==
    IF Len(archive) < HeaderLen
    THEN [res |-> Panic, blocks |-> <<>>]
    ELSE LET header == SubSeq(archive, 1, HeaderLen)
             data_seg == SubSeq(archive, HeaderLen + 1, Len(archive))
         IN IF Len(data_seg) % RecordSize # 0
            THEN [res |-> MalformedArchive, blocks |-> <<>>]
            ELSE IF header # Magic
            THEN [res |-> BadHeader(header[1], header[2], header[3], header[4]),
                  blocks |-> <<>>]
            ELSE [res |-> Ok, blocks |-> load_loop(<<>>, data_seg)]

\* (bug) no check of the length of the data segment: the loop drops the tail
load_archive_no_align(archive) ==
    IF Len(archive) < HeaderLen
    THEN [res |-> Panic, blocks |-> <<>>]
    ELSE LET header == SubSeq(archive, 1, HeaderLen)
             data_seg == SubSeq(archive, HeaderLen + 1, Len(archive))
         IN IF header # Magic
            THEN [res |-> BadHeader(header[1], header[2], header[3], header[4]),
                  blocks |-> <<>>]
            ELSE [res |-> Ok, blocks |-> load_loop(<<>>, data_seg)]

\* the outcome of load_archive: res is the Err (or Ok, or Panic), blocks the
\* vector inside Ok (empty when there is none)
load_archive(archive) ==
    IF Len(archive) < HeaderLen
    THEN [res |-> Panic, blocks |-> <<>>]
    ELSE LET header == SubSeq(archive, 1, HeaderLen)
             data_seg == SubSeq(archive, HeaderLen + 1, Len(archive))
         IN IF header # Magic
            THEN [res |-> BadHeader(header[1], header[2], header[3], header[4]),
                  blocks |-> <<>>]
            ELSE IF Len(data_seg) % RecordSize # 0
            THEN [res |-> MalformedArchive, blocks |-> <<>>]
            ELSE [res |-> Ok, blocks |-> load_loop(<<>>, data_seg)]

\* ------------------------------------------------------------------ store
\* (bug) the scan stops one element early
RECURSIVE position_short(_, _, _)
position_short(bs, idx, k) ==
    IF k >= Len(bs) THEN 0
    ELSE IF bs[k].idx = idx THEN k
    ELSE position_short(bs, idx, k + 1)

\* iter().position(|b| b.idx == idx) from element k on; 0 is None
RECURSIVE position(_, _, _)
position(bs, idx, k) ==
    IF k > Len(bs) THEN 0
    ELSE IF bs[k].idx = idx THEN k
    ELSE position(bs, idx, k + 1)

get_block(bs, idx) ==
    LET v == position(bs, idx, 1)
    IN IF v = 0 THEN None ELSE Some(bs[v].data)

\* the last block with this index, 0 when there is none
RECURSIVE rposition(_, _, _)
rposition(bs, idx, k) ==
    IF k = 0 THEN 0
    ELSE IF bs[k].idx = idx THEN k
    ELSE rposition(bs, idx, k - 1)

\* (bug) the last block with the index is overwritten, not the first
set_block_last(bs, idx, data) ==
    LET v == rposition(bs, idx, Len(bs))
    IN IF v # 0 THEN [bs EXCEPT ![v].data = data]
       ELSE Append(bs, Block(idx, data))

\* (bug) every call appends
set_block_push(bs, idx, data) == Append(bs, Block(idx, data))

\* (bug) a block of zeroes is not stored
set_block_skip_zero(bs, idx, data) ==
    LET v == position(bs, idx, 1)
    IN IF v # 0 THEN [bs EXCEPT ![v].data = data]
       ELSE IF \A k \in 1..BlockSize : data[k] = 0 THEN bs
       ELSE Append(bs, Block(idx, data))

\* (bug) a new block goes to the front of the vector
set_block_front(bs, idx, data) ==
    LET v == position(bs, idx, 1)
    IN IF v # 0 THEN [bs EXCEPT ![v].data = data]
       ELSE <<Block(idx, data)>> \o bs

set_block(bs, idx, data) ==
    LET v == position(bs, idx, 1)
    IN IF v # 0 THEN [bs EXCEPT ![v].data = data]
       ELSE Append(bs, Block(idx, data))

\* (bug) an unstable sort: a block goes in front of the blocks equal to it
RECURSIVE insert_unstable(_, _)
insert_unstable(s, b) ==
    IF s = <<>> THEN <<b>>
    ELSE IF partial_cmp(b, Head(s)) # "Greater" THEN <<b>> \o s
    ELSE <<Head(s)>> \o insert_unstable(Tail(s), b)

\* slice::sort_by is a stable sort: b goes behind the blocks not greater than it
RECURSIVE insert_sorted(_, _)
insert_sorted(s, b) ==
    IF s = <<>> THEN <<b>>
    ELSE IF partial_cmp(b, Head(s)) = "Less" THEN <<b>> \o s
    ELSE <<Head(s)>> \o insert_sorted(Tail(s), b)

RECURSIVE sort_into(_, _)
sort_into(acc, s) ==
    IF s = <<>> THEN acc ELSE sort_into(insert_sorted(acc, Head(s)), Tail(s))

\* one block kept of each run of blocks with the same index
RECURSIVE dedup(_)
dedup(s) ==
    IF Len(s) < 2 THEN s
    ELSE IF s[1].idx = s[2].idx THEN dedup(<<s[1]>> \o Tail(Tail(s)))
    ELSE <<s[1]>> \o dedup(Tail(s))

\* (bug) sort also drops the blocks that repeat an index
sort_dedup(s) == dedup(sort_into(<<>>, s))

\* (bug) the vector is left in insertion order
sort_noop(s) == s

sort_by(s) == sort_into(<<>>, s)

\* ------------------------------------------------------------- host files
NoFile == [exists |-> FALSE, bytes |-> <<>>]
FileOf(bytes) == [exists |-> TRUE, bytes |-> bytes]

RecordSeqs == UNION {[1..n -> BlockSet] : n \in 0..MaxRecords}
\* n records of one block, the body of the damaged files
Sample(n) == [k \in 1..n |-> Block(1234, RampData)]
Headers == {Magic, <<65, 86, 68, 1>>, <<66, 86, 68, 0>>}
Cuts == {0, 1, 2, 257}
Truncate(s, c) == IF c >= Len(s) THEN <<>> ELSE SubSeq(s, 1, Len(s) - c)
\* byte strings the host may hold at the path when the program starts: every
\* well-formed archive of up to MaxRecords records, and files with a wrong
\* header, a cut-off tail, or both
HostArchives ==
    {extend_blocks(Magic, rs) : rs \in RecordSeqs}
    \cup {Truncate(extend_blocks(h, Sample(n)), c) :
            h \in Headers, n \in 0..MaxRecords, c \in Cuts}

\* ------------------------------------------------------------------- load
\* (bug) self.blocks assigned whatever load_archive got, also on Err
load_clobber(bs, f, readable) ==
    IF ~(f.exists /\ readable) THEN [res |-> FsError, blocks |-> bs]
    ELSE load_archive(f.bytes)

\* (bug) the decoded blocks appended to the ones the Avd holds
load_merge(bs, f, readable) ==
    IF ~(f.exists /\ readable) THEN [res |-> FsError, blocks |-> bs]
    ELSE LET r == load_archive(f.bytes)
         IN IF r.res = Ok THEN [res |-> Ok, blocks |-> bs \o r.blocks]
            ELSE [res |-> r.res, blocks |-> bs]

\* load on an Avd holding bs: what it returns and what the Avd holds after
load(bs, f, readable) ==
    IF ~(f.exists /\ readable) THEN [res |-> FsError, blocks |-> bs]
    ELSE LET r == load_archive(f.bytes)
         IN IF r.res = Ok THEN r ELSE [res |-> r.res, blocks |-> bs]

\* ------------------------------------------------------------------ state
VARIABLES
    blocks,       \* Avd.blocks
    file,         \* the host file at the path handed to save and load
    last,         \* the last call: method and arguments
    result,       \* what that call returned
    everSet,      \* indices set_block was called with on this Avd
    setSortOnly,  \* this Avd was built from new() by set_block and sort only
    clean,        \* ... or also by loading files that save() wrote from such an Avd
    fileFrom      \* the blocks save() wrote the file from, if it did

vars == <<blocks, file, last, result, everSet, setSortOnly, clean, fileFrom>>

Step(op, i, d) == [op |-> op, idx |-> i, data |-> d]
Call(op) == Step(op, 0, <<>>)

NotSaved == [saved |-> FALSE, clean |-> FALSE, blocks |-> <<>>]
SavedFrom(bs, c) == [saved |-> TRUE, clean |-> c, blocks |-> bs]

Running == result.kind # "Panic"

Init ==
    /\ blocks = <<>>
    /\ file \in {NoFile} \cup {FileOf(a) : a \in HostArchives}
    /\ last = Call("new")
    /\ result = Unit
    /\ everSet = {}
    /\ setSortOnly = TRUE
    /\ clean = TRUE
    /\ fileFrom = NotSaved

\* Avd::new(): the caller drops its Avd for a blank one
New ==
    /\ Running
    /\ blocks' = <<>>
    /\ last' = Call("new")
    /\ result' = Unit
    /\ everSet' = {}
    /\ setSortOnly' = TRUE
    /\ clean' = TRUE
    /\ UNCHANGED <<file, fileFrom>>

SetBlock(idx, data) ==
    /\ Running
    /\ position(blocks, idx, 1) # 0 \/ Len(blocks) < MaxBlocks
    /\ blocks' = set_block(blocks, idx, data)
    /\ last' = Step("set_block", idx, data)
    /\ result' = Unit
    /\ everSet' = everSet \cup {idx}
    /\ UNCHANGED <<file, setSortOnly, clean, fileFrom>>

Sort ==
    /\ Running
    /\ blocks' = sort_by(blocks)
    /\ last' = Call("sort")
    /\ result' = Unit
    /\ UNCHANGED <<file, everSet, setSortOnly, clean, fileFrom>>

\* write(&path, a)?: the whole file is replaced; or the host refuses to open
\* the file, which stays as it was; or it fails after creating it
Save ==
    /\ Running
    /\ last' = Call("save")
    /\ \/ /\ file' = FileOf(save_archive(blocks))
          /\ fileFrom' = SavedFrom(blocks, clean)
          /\ result' = Ok
       \/ /\ result' = FsError
          /\ UNCHANGED <<file, fileFrom>>
       \/ /\ result' = FsError
          /\ file' = FileOf(<<>>)
          /\ fileFrom' = NotSaved
    /\ UNCHANGED <<blocks, everSet, setSortOnly, clean>>

\* read(path)? then self.blocks = self.load_archive(&archive)?
Load ==
    /\ Running
    /\ last' = Call("load")
    /\ \E readable \in BOOLEAN :
          LET r == load(blocks, file, readable)
          IN /\ result' = r.res
             /\ blocks' = r.blocks
             /\ setSortOnly' = (setSortOnly /\ r.res # Ok)
             /\ clean' = IF r.res = Ok THEN fileFrom.clean ELSE clean
    /\ UNCHANGED <<file, everSet, fileFrom>>

\* let mut d = Avd::new(); d.load(path)?; Ok(d): the caller gets a new Avd
\* only on Ok and keeps the one it has otherwise
FromHostDrive ==
    /\ Running
    /\ last' = Call("from_host_drive")
    /\ \E readable \in BOOLEAN :
          LET r == load(<<>>, file, readable)
          IN /\ result' = r.res
             /\ IF r.res = Ok
                THEN /\ blocks' = r.blocks
                     /\ everSet' = {}
                     /\ setSortOnly' = FALSE
                     /\ clean' = fileFrom.clean
                ELSE UNCHANGED <<blocks, everSet, setSortOnly, clean>>
    /\ UNCHANGED <<file, fileFrom>>

Next ==
    \/ New
    \/ \E idx \in Indices, data \in Payloads : SetBlock(idx, data)
    \/ Sort
    \/ Save
    \/ Load
    \/ FromHostDrive

Spec == Init /\ [][Next]_vars

\* ----------------------------------------------------------- properties
Unique(bs) == \A j, k \in 1..Len(bs) : bs[j].idx = bs[k].idx => j = k
\* the last call decoded the file: load got past read(path)
Decoded == last.op \in {"load", "from_host_drive"} /\ result # FsError
DataLen == Len(file.bytes) - HeaderLen

\* C1: round trip. When load decodes a file that save wrote from blocks with
\* unique indices, it succeeds, and get_block answers for every index what it
\* answered on the saved Avd.
RoundTrip ==
    (Decoded /\ fileFrom.saved /\ Unique(fileFrom.blocks))
        => /\ result = Ok
           /\ \A i \in ProbeIdx :
                 get_block(blocks, i) = get_block(fileFrom.blocks, i)

RoundTripWitness ==
    /\ last.op = "load" /\ result = Ok
    /\ fileFrom.saved /\ Unique(fileFrom.blocks)
    /\ Len(blocks) = 2
    /\ get_block(blocks, 1234) = Some(RampData)

\* C2: uniqueness. An Avd built from new() by set_block and sort, and by loads
\* of files saved from such an Avd, holds no two blocks with the same index.
UniqueIndices == clean => Unique(blocks)

UniqueIndicesWitness ==
    /\ clean /\ Len(blocks) = 2
    /\ last.op = "set_block" /\ position(blocks, last.idx, 1) = 1
    /\ fileFrom.saved

\* C3 (as claimed): decoding fewer than 4 bytes returns BadHeader.
ShortInputIsBadHeader ==
    (Decoded /\ Len(file.bytes) < HeaderLen) => result.kind = "BadHeader"

\* C4: decoding 4 bytes or more that do not start with 41 56 44 00 fails with
\* BadHeader carrying these 4 bytes in order, whatever the length of the rest.
BadHeaderFirst ==
    (Decoded /\ Len(file.bytes) >= 4 /\ SubSeq(file.bytes, 1, 4) # <<65, 86, 68, 0>>)
        => result = BadHeader(file.bytes[1], file.bytes[2], file.bytes[3], file.bytes[4])

BadHeaderFirstWitness ==
    /\ last.op = "load" /\ result.kind = "BadHeader"
    /\ DataLen > RecordSize /\ DataLen % RecordSize # 0
    /\ result.header[1] # result.header[4]

\* C5: decoding a valid header followed by k bytes fails with MalformedArchive
\* and gives no blocks when k mod 258 # 0, and succeeds with k/258 blocks
\* otherwise.
Alignment ==
    (Decoded /\ Len(file.bytes) >= 4 /\ SubSeq(file.bytes, 1, 4) = <<65, 86, 68, 0>>)
        => IF DataLen % 258 # 0
           THEN /\ result = MalformedArchive
                /\ load_archive(file.bytes).blocks = <<>>
           ELSE /\ result = Ok
                /\ Len(blocks) = DataLen \div 258

AlignmentWitness ==
    /\ last.op = "load" /\ result = MalformedArchive
    /\ DataLen > 258

\* C6: a load that returns an error leaves the block sequence as it was.
FailedLoadKeepsBlocks ==
    [][(last'.op = "load" /\ result'.kind \in {"FsError", "BadHeader", "MalformedArchive"})
          => blocks' = blocks]_vars

FailedLoadWitness ==
    /\ last.op = "load" /\ result = MalformedArchive
    /\ Len(blocks) = 2 /\ file.exists

\* C7: sort does not change what get_block returns, for any index, also when
\* the Avd holds blocks with the same index.
SortKeepsGetBlock ==
    [][last'.op = "sort"
          => \A i \in ProbeIdx : get_block(blocks', i) = get_block(blocks, i)]_vars

SortKeepsGetBlockWitness ==
    /\ last.op = "sort" /\ Len(blocks) = 3
    /\ blocks[1].idx < blocks[2].idx
    /\ blocks[2].idx = blocks[3].idx /\ blocks[2].data # blocks[3].data

\* C8: right after set_block(i, x), get_block(i) is Some(x), also when the
\* Avd holds several blocks with index i.
ReadYourWrite ==
    last.op = "set_block" => get_block(blocks, last.idx) = Some(last.data)

ReadYourWriteWitness ==
    /\ last.op = "set_block"
    /\ \E j, k \in 1..Len(blocks) :
          /\ j < k /\ blocks[j].idx = last.idx /\ blocks[k].idx = last.idx
          /\ blocks[k].data # last.data

\* C9: set_block(i, x) called again with the same x leaves the block sequence
\* as it is, and set_block on an index that is present keeps the number of
\* blocks.
OverwriteIdempotent ==
    [][last'.op = "set_block"
          => /\ (last = last') => blocks' = blocks
             /\ get_block(blocks, last'.idx) = Some(last'.data) => blocks' = blocks
             /\ position(blocks, last'.idx, 1) # 0 => Len(blocks') = Len(blocks)]_vars

OverwriteIdempotentWitness ==
    /\ last.op = "set_block" /\ Len(blocks) = 2
    /\ blocks[1].idx = last.idx /\ blocks[1].data = last.data
    /\ Cardinality(everSet) = 2

RecordAt(bytes, n) == [k \in 1..258 |-> bytes[4 + 258 * (n - 1) + k]]
RecordCount(bytes) == (Len(bytes) - 4) \div 258
\* the file holds a record whose first two bytes are index i, high byte first
HasRecord(bytes, i) ==
    \E n \in 1..RecordCount(bytes) :
        RecordAt(bytes, n)[1] * 256 + RecordAt(bytes, n)[2] = i

\* C11: a load that succeeds replaces the block sequence by the one a new Avd
\* gets from the same file; an index the file has no record of reads as None
\* afterwards, whatever the Avd held before.
LoadReplaces ==
    [][(last'.op = "load" /\ result' = Ok)
          => /\ blocks' = load(<<>>, file, TRUE).blocks
             /\ \A i \in ProbeIdx :
                   ~HasRecord(file.bytes, i) => get_block(blocks', i) = None]_vars

LoadReplacesWitness ==
    /\ last.op = "load" /\ result = Ok /\ blocks # <<>>
    /\ \E i \in everSet : get_block(blocks, i) = None

\* C12: save writes 41 56 44 00 and then, for each block in sequence order, the
\* index as two bytes, high byte first, and the 256 bytes of payload: 4 + 258 N
\* bytes for N blocks.
EncodingLayout ==
    (last.op = "save" /\ result = Ok) =>
        /\ Len(file.bytes) = 4 + 258 * Len(blocks)
        /\ SubSeq(file.bytes, 1, 4) = <<65, 86, 68, 0>>
        /\ \A n \in 1..Len(blocks) :
              LET rec == RecordAt(file.bytes, n)
              IN /\ rec[1] = blocks[n].idx \div 256
                 /\ rec[2] = blocks[n].idx % 256
                 /\ \A k \in 1..256 : rec[2 + k] = blocks[n].data[k]

EncodingLayoutWitness ==
    /\ last.op = "save" /\ result = Ok /\ Len(blocks) = 3
    /\ blocks[1].idx = 1234 /\ blocks[2].idx = 0 /\ blocks[3].idx = 1234

\* the number of blocks with index i
Count(bs, i) == Cardinality({k \in 1..Len(bs) : bs[k].idx = i})
\* the step is a sort, or a set_block on an index that two blocks share, of an
\* Avd that holds blocks with the same index
TouchesDuplicates ==
    /\ ~Unique(blocks)
    /\ \/ last'.op = "sort"
       \/ last'.op = "set_block" /\ Count(blocks, last'.idx) >= 2

\* C13 (as claimed): after set_block on the shared index, or sort, no two
\* blocks share an index.
DuplicatesRepaired == [][TouchesDuplicates => Unique(blocks')]_vars

\* C13 (amended): set_block on the shared index and sort leave the number of
\* blocks with each index as it was, so the blocks that share an index stay.
DuplicatesStay ==
    [][TouchesDuplicates
          => \A i \in ProbeIdx : Count(blocks', i) = Count(blocks, i)]_vars

DuplicatesStayWitness ==
    /\ last.op = "sort" /\ Len(blocks) = 2
    /\ blocks[1].idx = blocks[2].idx /\ blocks[1].data # blocks[2].data

\* C14: set_block(i, x) leaves get_block(j) as it was for every j # i. When a
\* block with index i is present, the sequence keeps its length and the index
\* at every position, and only the first block with index i may change; when
\* none is, the sequence is the old one with the block (i, x) appended.
SetBlockFrame ==
    [][last'.op = "set_block" =>
          LET i == last'.idx
              x == last'.data
              first == CHOOSE k \in 1..Len(blocks) :
                          /\ blocks[k].idx = i
                          /\ \A j \in 1..(k - 1) : blocks[j].idx # i
          IN /\ \A j \in ProbeIdx \ {i} : get_block(blocks', j) = get_block(blocks, j)
             /\ IF \E k \in 1..Len(blocks) : blocks[k].idx = i
                THEN /\ Len(blocks') = Len(blocks)
                     /\ \A k \in 1..Len(blocks) : blocks'[k].idx = blocks[k].idx
                     /\ \A k \in 1..Len(blocks) : k # first => blocks'[k] = blocks[k]
                     /\ blocks'[first].data = x
                ELSE blocks' = blocks \o <<[idx |-> i, data |-> x]>>]_vars

SetBlockFrameWitness ==
    /\ last.op = "set_block" /\ Len(blocks) = 3
    /\ blocks[1].idx # last.idx
    /\ blocks[2].idx = last.idx /\ blocks[2].data = last.data
    /\ blocks[3].idx = last.idx /\ blocks[3].data # last.data

\* C15: a successful decode gives one block per 258-byte record, in file
\* order, nothing dropped; so decoding a file that save wrote gives back the
\* block sequence it was saved from, also one with repeated indices.
DecodeKeepsOrder ==
    /\ (Decoded /\ result = Ok) =>
          /\ Len(blocks) = RecordCount(file.bytes)
          /\ \A n \in 1..Len(blocks) :
                LET rec == RecordAt(file.bytes, n)
                IN /\ blocks[n].idx = rec[1] * 256 + rec[2]
                   /\ blocks[n].data = [k \in 1..256 |-> rec[2 + k]]
    /\ (Decoded /\ fileFrom.saved) =>
          /\ result = Ok
          /\ blocks = fileFrom.blocks

DecodeKeepsOrderWitness ==
    /\ last.op = "load" /\ result = Ok /\ fileFrom.saved
    /\ Len(blocks) = 3 /\ ~Unique(blocks)
    /\ blocks[1].idx > blocks[2].idx

\* the blocks with index i, in sequence order
WithIdx(bs, i) == SelectSeq(bs, LAMBDA b : b.idx = i)
\* how often block b occurs
Occurs(bs, b) == Cardinality({k \in 1..Len(bs) : bs[k] = b})

\* C16: after sort the indices do not decrease along the sequence, every block
\* occurs as often as before (so the length is the same), and the blocks with
\* the same index are in the order they were in.
SortPostcondition ==
    [][last'.op = "sort" =>
          /\ \A k \in 1..(Len(blocks') - 1) : blocks'[k].idx <= blocks'[k + 1].idx
          /\ Len(blocks') = Len(blocks)
          /\ \A k \in 1..Len(blocks) : Occurs(blocks', blocks[k]) = Occurs(blocks, blocks[k])
          /\ \A k \in 1..Len(blocks') : Occurs(blocks', blocks'[k]) = Occurs(blocks, blocks'[k])
          /\ \A i \in ProbeIdx : WithIdx(blocks', i) = WithIdx(blocks, i)]_vars

SortPostconditionWitness ==
    /\ last.op = "sort" /\ Len(blocks) = 3
    /\ blocks[1].idx = blocks[2].idx /\ blocks[1].data # blocks[2].data
    /\ blocks[2].idx < blocks[3].idx

\* the block sequences that hold the blocks of bs in some order: what other
\* orders of the same set_block calls build
Orders(bs) ==
    {[k \in 1..Len(bs) |-> bs[p[k]]] :
        p \in {q \in [1..Len(bs) -> 1..Len(bs)] :
                 \A j, k \in 1..Len(bs) : q[j] = q[k] => j = k}}

\* C17: once sorted, an Avd with unique indices encodes to the same bytes as
\* any Avd that holds the same blocks in another order and is sorted too.
CanonicalAfterSort ==
    (last.op = "sort" /\ Unique(blocks)) =>
        \A other \in Orders(blocks) :
            save_archive(sort_by(other)) = save_archive(blocks)

CanonicalAfterSortWitness ==
    /\ last.op = "sort" /\ setSortOnly /\ Unique(blocks) /\ Len(blocks) = 2
    /\ fileFrom.saved /\ fileFrom.blocks = <<blocks[2], blocks[1]>>

\* C18: when a file decodes successfully, encoding the decoded blocks as they
\* are gives the bytes of the file.
ReencodeExact ==
    (Decoded /\ result = Ok) => save_archive(blocks) = file.bytes

ReencodeExactWitness ==
    /\ last.op = "load" /\ result = Ok /\ ~fileFrom.saved
    /\ Len(blocks) = 3 /\ blocks[1].idx > blocks[2].idx
    /\ blocks[3].data # blocks[1].data

====
